---- MODULE Spec2Model ----
(***************************************************************************)
(* Model of cmd/visualize/latent.py: a linear script that checks its       *)
(* arguments, loads two JSON documents, defines its helpers and then runs  *)
(* the top-level plot-and-save block.                                      *)
(*                                                                         *)
(*   Spec        one run of the script, for every argument count and every *)
(*               state of the input files                                  *)
(*   SpecParse   parse_cadvisor_data, parse_singleton_data and             *)
(*               parse_ha_data called on bounded cadvisor documents        *)
(*   SpecFormat  format and formatBytes called on bounded numbers          *)
(***************************************************************************)
EXTENDS Integers, Sequences, FiniteSets, TLC

\* ------------------------------------------------------------------------
\* Bounds
\* ------------------------------------------------------------------------
\* largest len(sys.argv) explored (script name included)
MaxArgv == 5
\* most components of a cadvisor document
MaxComponents == 2
\* most records (replicas) of one component
MaxRecords == 2
\* largest magnitude of the exponent handed to format
MaxExp == 12
\* largest leading factor of the byte counts handed to formatBytes
MaxLead == 20

VARIABLES
    pc,             \* position of the script: the next block to execute
    argv,           \* sys.argv
    fs,             \* state of every file below the two directories
    data_dir,       \* line 21
    output_figure_dir, \* line 22
    stdout,         \* lines printed by the script itself
    error,          \* the exception that ended the run, "none" otherwise
    exit_status,    \* process exit status, -1 while running
    opened,         \* paths passed to open(), in order
    written,        \* paths created or modified
    globals,        \* names bound in the module namespace
    phases,         \* steps of the pipeline that have completed, in order
    fs0,            \* the files as they were when the script started
    arg,            \* argument of a helper called on its own
    calls,          \* the functions entered by that call, in order
    ret             \* what the call returned or raised

scriptVars == <<pc, argv, fs, data_dir, output_figure_dir, stdout, error,
                exit_status, opened, written, globals, phases, fs0>>

callVars == <<arg, calls, ret>>

vars == <<scriptVars, callVars>>

\* ------------------------------------------------------------------------
\* The process environment
\* ------------------------------------------------------------------------
\* sys.argv of length n: the script name followed by n-1 arguments
ArgvOfLen(n) == SubSeq(<<"latent.py", "DATA", "OUT", "extra1", "extra2", "extra3">>, 1, n)

FileStates == {"missing", "malformed", "ok"}

Path(dir, name) == <<dir, name>>

InputNames == {"latent-watch.json", "data.json"}

\* the files that may exist when the script starts
KnownPaths == {Path("DATA", n) : n \in InputNames} \cup {Path("OUT", "indexed_requests.png")}

\* os.path.join(data_dir, "latent-watch.json")
events_file_path == Path(data_dir, "latent-watch.json")

\* the cadvisor path taken from the wrong directory
cadvisor_file_path_other_dir == Path(output_figure_dir, "data.json")

\* os.path.join(data_dir, "data.json")
cadvisor_file_path == Path(data_dir, "data.json")

\* os.path.join(output_figure_dir, "indexed_requests.png")
figure_path == Path(output_figure_dir, "indexed_requests.png")

\* state of a path; anything outside KnownPaths does not exist
StateOf(p) == IF p \in DOMAIN fs THEN fs[p] ELSE "missing"

\* the names bound by the def statements and assignments of lines 34-225
DefinedNames == {"annotate_axis", "nanosecond", "microsecond", "millisecond",
                 "second", "format", "kilobyte", "megabyte", "gigabyte",
                 "formatBytes", "parse_cadvisor_data", "parse_singleton_data",
                 "parse_ha_data", "plot_resource_usage"}

\* the names the top-level block looks up, in evaluation order
ToplevelNames == <<"plot_request_times", "parse_request_times",
                   "plot_resource_usage", "parse_cadvisor_data">>

\* uncaught exception: the interpreter prints a traceback and exits with 1
Raise(exc) ==
    /\ error' = exc
    /\ exit_status' = 1
    /\ pc' = "exited"

\* ------------------------------------------------------------------------
\* Arbitrary-size naturals (Python and float magnitudes beyond TLC's
\* integers): little-endian sequences of base-1000 digits
\* ------------------------------------------------------------------------
Limb == 10 * 10 * 10

RECURSIVE BigTrim(_)
BigTrim(a) ==
    IF Len(a) > 1 /\ a[Len(a)] = 0 THEN BigTrim(SubSeq(a, 1, Len(a) - 1)) ELSE a

RECURSIVE BigAddC(_, _, _)
BigAddC(a, b, carry) ==
    IF a = <<>> /\ b = <<>>
    THEN IF carry = 0 THEN <<>> ELSE <<carry>>
    ELSE LET x == IF a = <<>> THEN 0 ELSE Head(a)
             y == IF b = <<>> THEN 0 ELSE Head(b)
             s == x + y + carry
         IN  <<s % Limb>> \o BigAddC(IF a = <<>> THEN a ELSE Tail(a),
                                     IF b = <<>> THEN b ELSE Tail(b), s \div Limb)

BigAdd(a, b) == BigTrim(BigAddC(a, b, 0))

RECURSIVE BigMulSmallC(_, _, _)
BigMulSmallC(a, k, carry) ==
    IF a = <<>>
    THEN IF carry = 0 THEN <<>> ELSE <<carry % Limb>> \o BigMulSmallC(a, k, carry \div Limb)
    ELSE LET p == Head(a) * k + carry
         IN  <<p % Limb>> \o BigMulSmallC(Tail(a), k, p \div Limb)

\* a * k for 0 <= k <= Limb
BigMulSmall(a, k) == BigTrim(IF k = 0 THEN <<0>> ELSE BigMulSmallC(a, k, 0))

RECURSIVE BigMul(_, _)
BigMul(a, b) ==
    IF a = <<>> THEN <<0>>
    ELSE BigAdd(BigMulSmall(b, Head(a)), BigTrim(<<0>> \o BigMul(Tail(a), b)))

RECURSIVE BigLessFrom(_, _, _)
BigLessFrom(a, b, i) ==
    IF i = 0 THEN FALSE
    ELSE IF a[i] # b[i] THEN a[i] < b[i] ELSE BigLessFrom(a, b, i - 1)

\* a < b, both trimmed
BigLess(a, b) ==
    IF Len(a) # Len(b) THEN Len(a) < Len(b) ELSE BigLessFrom(a, b, Len(a))

BigLe(a, b) == ~BigLess(b, a)

\* a non-negative real as a quotient of two naturals
BigQ(num, den) == [num |-> num, den |-> den]

\* c <= q and q < c for a natural c and a quotient q
QGe(q, c) == BigLe(BigMul(c, q.den), q.num)
QLt(q, c) == BigLess(q.num, BigMul(c, q.den))

\* ------------------------------------------------------------------------
\* format and formatBytes (lines 73-102)
\* ------------------------------------------------------------------------
nanosecond == <<1>>
microsecond == BigMulSmall(nanosecond, 1000)
millisecond == BigMulSmall(microsecond, 1000)
second == BigMulSmall(millisecond, 1000)

RECURSIVE BigPow10(_)
BigPow10(e) == IF e = 0 THEN <<1>> ELSE BigMulSmall(BigPow10(e - 1), 10)

\* np.power(10, x) for a float x holding a whole number
np_power10(x) ==
    IF x >= 0 THEN BigQ(BigPow10(x), <<1>>) ELSE BigQ(<<1>>, BigPow10(-x))

\* the text '{:.0f}'.format(value / unit) + suffix, kept as its two parts:
\* the quotient handed to the format specification, and the suffix
Formatted(value, unit, suffix) ==
    [number |-> BigQ(value.num, BigMul(value.den, unit)), unit |-> suffix]

format(x) ==
    LET nanoseconds == np_power10(x)
    IN  IF QGe(nanoseconds, second)
        THEN Formatted(nanoseconds, second, "s")
        ELSE IF QGe(nanoseconds, millisecond) /\ QLt(nanoseconds, second)
        THEN Formatted(nanoseconds, millisecond, "ms")
        ELSE IF QGe(nanoseconds, microsecond) /\ QLt(nanoseconds, millisecond)
        THEN Formatted(nanoseconds, microsecond, "us")
        ELSE Formatted(nanoseconds, nanosecond, "ns")

kilobyte == 1000
megabyte == 1000 * kilobyte
gigabyte == 1000 * megabyte

\* the text '{:,.0f}'.format(bytes / unit) + suffix, kept as its parts
FormattedBytes(bytes, unit, suffix) ==
    [bytes |-> bytes, per |-> unit, unit |-> suffix]

\* the first branch taking zero as well
formatBytes_zero_inclusive(bytes) ==
    IF 0 <= bytes /\ bytes < megabyte
    THEN FormattedBytes(bytes, kilobyte, "KB")
    ELSE IF megabyte <= bytes /\ bytes < gigabyte
    THEN FormattedBytes(bytes, megabyte, "MB")
    ELSE FormattedBytes(bytes, gigabyte, "GB")

formatBytes(bytes) ==
    IF 0 < bytes /\ bytes < megabyte
    THEN FormattedBytes(bytes, kilobyte, "KB")
    ELSE IF megabyte <= bytes /\ bytes < gigabyte
    THEN FormattedBytes(bytes, megabyte, "MB")
    ELSE FormattedBytes(bytes, gigabyte, "GB")

\* ------------------------------------------------------------------------
\* Floats: exact quotients n/d (d > 0, lowest terms) and the three IEEE
\* specials.  Rounding error of the binary representation is not modelled.
\* ------------------------------------------------------------------------
Abs(x) == IF x < 0 THEN -x ELSE x

RECURSIVE Gcd(_, _)
Gcd(a, b) == IF b = 0 THEN a ELSE Gcd(b, a % b)

NaN == [k |-> "nan", n |-> 0, d |-> 1]
PosInf == [k |-> "inf", n |-> 1, d |-> 1]
NegInf == [k |-> "inf", n |-> -1, d |-> 1]

\* the float n/d, d # 0
Q(n, d) ==
    LET g == Gcd(Abs(n), Abs(d))
        sg == IF d < 0 THEN -1 ELSE 1
    IN  [k |-> "num", n |-> sg * (n \div g), d |-> sg * (d \div g)]

Fl(i) == Q(i, 1)

IsNaN(x) == x.k = "nan"
IsFinite(x) == x.k = "num"
SignOf(x) == IF x.n > 0 THEN 1 ELSE IF x.n < 0 THEN -1 ELSE 0
InfOfSign(sg) == IF sg > 0 THEN PosInf ELSE NegInf

FNeg(x) == [x EXCEPT !.n = -x.n]

FAdd(x, y) ==
    CASE IsNaN(x) \/ IsNaN(y) -> NaN
      [] IsFinite(x) /\ IsFinite(y) -> Q(x.n * y.d + y.n * x.d, x.d * y.d)
      [] IsFinite(x) -> y
      [] IsFinite(y) -> x
      [] OTHER -> IF x.n = y.n THEN x ELSE NaN

FSub(x, y) == FAdd(x, FNeg(y))

FMul(x, y) ==
    CASE IsNaN(x) \/ IsNaN(y) -> NaN
      [] IsFinite(x) /\ IsFinite(y) -> Q(x.n * y.n, x.d * y.d)
      [] OTHER -> IF SignOf(x) * SignOf(y) = 0 THEN NaN
                  ELSE InfOfSign(SignOf(x) * SignOf(y))

\* IEEE division; a zero divisor is +0.0
FDiv(x, y) ==
    CASE IsNaN(x) \/ IsNaN(y) -> NaN
      [] IsFinite(x) /\ IsFinite(y) ->
            IF y.n # 0 THEN Q(x.n * y.d, x.d * y.n)
            ELSE IF x.n = 0 THEN NaN ELSE InfOfSign(SignOf(x))
      [] IsFinite(x) -> Fl(0)
      [] IsFinite(y) -> InfOfSign(SignOf(x) * (IF y.n < 0 THEN -1 ELSE 1))
      [] OTHER -> NaN

\* x < y for finite floats
FLess(x, y) == x.n * y.d < y.n * x.d

RECURSIVE FSum(_)
FSum(xs) == IF xs = <<>> THEN Fl(0) ELSE FAdd(Head(xs), FSum(Tail(xs)))

\* ------------------------------------------------------------------------
\* Results of calls that may raise
\* ------------------------------------------------------------------------
Ok(v) == [ok |-> TRUE, v |-> v, err |-> "none"]
Err(e) == [ok |-> FALSE, v |-> <<>>, err |-> e]

\* ------------------------------------------------------------------------
\* numpy
\* ------------------------------------------------------------------------
\* np.diff
np_diff(x) == [i \in 1..(Len(x) - 1) |-> FSub(x[i + 1], x[i])]

\* np.gradient(f, x), one dimension, edge_order 1, coordinates x.
\* Fewer than two points: diffx is empty and diffx[0] raises.
np_gradient(f, x) ==
    IF Len(x) # Len(f) THEN Err("ValueError")
    ELSE IF Len(f) < 2 THEN Err("IndexError")
    ELSE
    LET n == Len(f)
        diffx == np_diff(x)
        uniform == \A i \in 1..(n - 1) : diffx[i] = diffx[1]
        interior(i) ==
            IF uniform
            THEN FDiv(FSub(f[i + 1], f[i - 1]), FMul(Fl(2), diffx[1]))
            ELSE LET dx1 == diffx[i - 1]
                     dx2 == diffx[i]
                     a == FDiv(FNeg(dx2), FMul(dx1, FAdd(dx1, dx2)))
                     b == FDiv(FSub(dx2, dx1), FMul(dx1, dx2))
                     c == FDiv(dx1, FMul(dx2, FAdd(dx1, dx2)))
                 IN  FAdd(FAdd(FMul(a, f[i - 1]), FMul(b, f[i])), FMul(c, f[i + 1]))
    IN  Ok([i \in 1..n |->
              IF i = 1 THEN FDiv(FSub(f[2], f[1]), diffx[1])
              ELSE IF i = n THEN FDiv(FSub(f[n], f[n - 1]), diffx[n - 1])
              ELSE interior(i)])

\* np.ones(n)
np_ones(n) == [i \in 1..n |-> Fl(1)]

\* np.convolve(a, v, 'same'): the operands are swapped when v is the longer,
\* and the result is the central max(len) entries of the full convolution
np_convolve_same(a0, v0) ==
    IF a0 = <<>> \/ v0 = <<>> THEN Err("ValueError")
    ELSE
    LET a == IF Len(v0) > Len(a0) THEN v0 ELSE a0
        v == IF Len(v0) > Len(a0) THEN a0 ELSE v0
        n == Len(a)
        m == Len(v)
        start == (m - 1) \div 2
        \* entry k (from 0) of the full convolution
        full(k) == FSum([j \in 1..m |->
                          IF k - (j - 1) >= 0 /\ k - (j - 1) < n
                          THEN FMul(a[k - (j - 1) + 1], v[j]) ELSE Fl(0)])
    IN  Ok([i \in 1..n |-> full(i - 1 + start)])

\* ------------------------------------------------------------------------
\* pandas: a Series is a sequence of [t, v] entries, t the index label (a
\* timedelta in whole seconds) and v a float
\* ------------------------------------------------------------------------
Entry(t, v) == [t |-> t, v |-> v]

\* pd.Series(values, index=index)
pd_Series(values, index) == [i \in 1..Len(values) |-> Entry(index[i], values[i])]

SetMin(S) == CHOOSE x \in S : \A y \in S : x <= y
SetMax(S) == CHOOSE x \in S : \A y \in S : x >= y

RECURSIVE SortedSeq(_)
\* the elements of a finite set of integers in increasing order
SortedSeq(S) == IF S = {} THEN <<>> ELSE <<SetMin(S)>> \o SortedSeq(S \ {SetMin(S)})

\* the values of the entries that satisfy a test on the label, in order
RECURSIVE ValuesIn(_, _, _)
ValuesIn(series, lo, hi) ==
    IF series = <<>> THEN <<>>
    ELSE (IF lo <= Head(series).t /\ Head(series).t < hi
          THEN <<Head(series).v>> ELSE <<>>) \o ValuesIn(Tail(series), lo, hi)

\* width of a resampling bucket, "3S"
BucketSeconds == 3

\* series.resample("3S").mean(): buckets [L, L + 3) from the smallest label
\* to the one holding the largest, the mean of a bucket's values, NaN for an
\* empty bucket
resample_mean(series) ==
    LET labels == {series[i].t : i \in 1..Len(series)}
        start == SetMin(labels)
        end == SetMax(labels)
        count == (end - start) \div BucketSeconds + 1
        mean(vals) == IF vals = <<>> THEN NaN ELSE FDiv(FSum(vals), Fl(Len(vals)))
    IN  [b \in 1..count |->
            LET L == start + (b - 1) * BucketSeconds
            IN  Entry(L, mean(ValuesIn(series, L, L + BucketSeconds)))]

\* series.interpolate(method="time"): a NaN between two valid entries lies
\* on the straight line through them, a NaN after the last valid entry
\* repeats it, a NaN before the first valid entry stays
interpolate_time(series) ==
    LET valid == {i \in 1..Len(series) : ~IsNaN(series[i].v)}
        fill(i) ==
            LET before == {j \in valid : j < i}
                after == {j \in valid : j > i}
            IN  IF before = {} THEN NaN
                ELSE IF after = {} THEN series[SetMax(before)].v
                ELSE LET p == series[SetMax(before)]
                         q == series[SetMin(after)]
                         slope == FDiv(FSub(q.v, p.v), Fl(q.t - p.t))
                     IN  FAdd(FMul(slope, Fl(series[i].t - p.t)), p.v)
    IN  [i \in 1..Len(series) |->
            IF i \in valid THEN series[i] ELSE Entry(series[i].t, fill(i))]

\* the index labels of a series
LabelsOf(series) == {series[i].t : i \in 1..Len(series)}

\* the value at a label (the labels of a resampled series are distinct)
ValueAt(series, t) == series[CHOOSE i \in 1..Len(series) : series[i].t = t].v

\* the sum with a missing entry counted as zero (add(..., fill_value=0))
series_add_fill_zero(left, right) ==
    LET index == SortedSeq(LabelsOf(left) \cup LabelsOf(right))
        val(series, t) == IF t \in LabelsOf(series) THEN ValueAt(series, t) ELSE [k |-> "num", n |-> 0, d |-> 1]
    IN  [i \in 1..Len(index) |->
            [t |-> index[i], v |-> FAdd(val(left, index[i]), val(right, index[i]))]]

\* left.add(right): aligned on the sorted union of the labels, NaN where
\* either side has no entry
series_add(left, right) ==
    LET index == SortedSeq(LabelsOf(left) \cup LabelsOf(right))
    IN  [i \in 1..Len(index) |->
            Entry(index[i],
                  IF index[i] \in LabelsOf(left) /\ index[i] \in LabelsOf(right)
                  THEN FAdd(ValueAt(left, index[i]), ValueAt(right, index[i]))
                  ELSE NaN)]

Column(series) == [i \in 1..Len(series) |-> series[i].v]

\* a table built without comparing the lengths of its columns
pd_DataFrame_unchecked(components, cpus, mems, timestamps) ==
    [ok |-> TRUE, err |-> "none",
     v |-> [component |-> components, cpu |-> cpus, mem |-> mems, timestamp |-> timestamps]]

\* pd.DataFrame(dict of lists): columns of unequal length raise
pd_DataFrame(components, cpus, mems, timestamps) ==
    IF Len(components) = Len(cpus) /\ Len(cpus) = Len(mems) /\ Len(mems) = Len(timestamps)
    THEN Ok([component |-> components, cpu |-> cpus, mem |-> mems, timestamp |-> timestamps])
    ELSE Err("ValueError")

\* ------------------------------------------------------------------------
\* The cadvisor document: a sequence of components in document order, each
\* [id, records], records a sequence of traces in document order, a trace a
\* sequence of samples
\* ------------------------------------------------------------------------
Sample(secs, working_set, total) ==
    [timestamp |-> [text |-> secs, suffix |-> "Z"],
     memory |-> [working_set |-> working_set],
     cpu |-> [usage |-> [total |-> total]]]

\* str.removesuffix
removesuffix(str, suffix) == IF str.suffix = suffix THEN [str EXCEPT !.suffix = ""] ELSE str

\* np.datetime64 of an ISO timestamp without zone: seconds since the epoch
np_datetime64(str) == str.text

\* item["cpu"]["usage"]["total"] / 1e9
CpuSeconds(item) == FDiv(Fl(item.cpu.usage.total), Fl(1000000000))

\* the elapsed time in milliseconds
Seconds_as_milliseconds(delta) == [k |-> "num", n |-> delta * 1000, d |-> 1]

\* timedelta / np.timedelta64(1, 's')
Seconds(delta) == FDiv(Fl(delta), Fl(1))

EmptyLists == [components |-> <<>>, cpus |-> <<>>, mems |-> <<>>, timestamps |-> <<>>]

\* line 128 over a record
SubCpus(trace) == [i \in 1..Len(trace) |-> CpuSeconds(trace[i])]

\* line 151 over a record
SubMems(trace) == [i \in 1..Len(trace) |-> Fl(trace[i].memory.working_set)]

\* lines 122 and 152: each sample's time minus the time of the first sample
\* listed, a timedelta in whole seconds
SubDeltas(trace) ==
    LET base == np_datetime64(removesuffix(trace[1].timestamp, "Z"))
    IN  [i \in 1..Len(trace) |->
            np_datetime64(removesuffix(trace[i].timestamp, "Z")) - base]

\* line 129 over a record
SubTs(trace) == [i \in 1..Len(trace) |-> Seconds(SubDeltas(trace)[i])]

\* lines 126-127 and 131-133: the four lists after a record
SingletonExtend(lists, id, trace, grad) ==
    IF ~grad.ok THEN grad
    ELSE Ok([components |-> lists.components \o [i \in 1..Len(trace) |-> id],
             mems |-> lists.mems \o SubMems(trace),
             cpus |-> lists.cpus \o grad.v,
             timestamps |-> lists.timestamps \o SubTs(trace)])

\* lines 121-133: one record of parse_singleton_data; an empty record
\* raises at data[id][record][0]
SingletonRecord(lists, id, trace) ==
    IF trace = <<>> THEN Err("IndexError")
    ELSE SingletonExtend(lists, id, trace, np_gradient(SubCpus(trace), SubTs(trace)))

RECURSIVE SingletonRecords(_, _, _)

\* the records after the first, unless the first raised
SingletonRecordsAfter(r, id, records) ==
    IF ~r.ok THEN r ELSE SingletonRecords(r.v, id, records)

\* lines 121-133: for record in data[id]
SingletonRecords(lists, id, records) ==
    IF records = <<>> THEN Ok(lists)
    ELSE SingletonRecordsAfter(SingletonRecord(lists, id, Head(records)), id, Tail(records))

RECURSIVE SingletonComponents(_, _)

\* the components after the first, unless the first raised
SingletonComponentsAfter(r, data) ==
    IF ~r.ok THEN r ELSE SingletonComponents(r.v, data)

\* lines 120-133: for id in data
SingletonComponents(lists, data) ==
    IF data = <<>> THEN Ok(lists)
    ELSE SingletonComponentsAfter(
            SingletonRecords(lists, Head(data).id, Head(data).records), Tail(data))

\* lines 135 and 178: the table of the four lists, unless a loop raised
FrameOf(r) ==
    IF ~r.ok THEN r
    ELSE pd_DataFrame(r.v.components, r.v.cpus, r.v.mems, r.v.timestamps)

\* lines 115-137
parse_singleton_data(data) == FrameOf(SingletonComponents(EmptyLists, data))

None == [none |-> TRUE, series |-> <<>>]
Some(series) == [none |-> FALSE, series |-> series]

\* lines 156-159 and 163-166: the running sum over the records seen so far
Accumulate(sum, resampled) ==
    IF sum.none THEN Some(resampled) ELSE Some(series_add(sum.series, resampled))

\* lines 154-155 and 161-162
Resample(values, index) == interpolate_time(resample_mean(pd_Series(values, index)))

\* lines 149-166: one record of parse_ha_data; sums is [mem, cpu]
HaRecord(sums, trace) ==
    IF trace = <<>> THEN Err("IndexError")
    ELSE Ok([mem |-> Accumulate(sums.mem, Resample(SubMems(trace), SubDeltas(trace))),
             cpu |-> Accumulate(sums.cpu, Resample(SubCpus(trace), SubDeltas(trace)))])

RECURSIVE HaRecords(_, _)

\* the records after the first, unless the first raised
HaRecordsAfter(r, records) == IF ~r.ok THEN r ELSE HaRecords(r.v, records)

\* lines 148-166: for record in data[id]
HaRecords(sums, records) ==
    IF records = <<>> THEN Ok(sums)
    ELSE HaRecordsAfter(HaRecord(sums, Head(records)), Tail(records))

\* averaging window of the CPU rate
weight == 10

\* line 168
TimestampSeconds(cpu) == [i \in 1..Len(cpu) |-> Seconds(cpu[i].t)]

\* lines 171-176: the four lists after a component
HaExtend(lists, id, mem, timestamp_seconds, conv) ==
    IF ~conv.ok THEN conv
    ELSE Ok([components |-> lists.components \o
                            [i \in 1..Len(timestamp_seconds) |-> id],
             timestamps |-> lists.timestamps \o timestamp_seconds,
             cpus |-> lists.cpus \o [i \in 1..Len(conv.v) |-> FDiv(conv.v[i], Fl(weight))],
             mems |-> lists.mems \o Column(mem)])

\* lines 173-174
HaAverage(lists, id, mem, timestamp_seconds, cpu_rate) ==
    IF ~cpu_rate.ok THEN cpu_rate
    ELSE HaExtend(lists, id, mem, timestamp_seconds,
                  np_convolve_same(cpu_rate.v, np_ones(weight)))

\* lines 168-169
HaRate(lists, id, cpu, mem, timestamp_seconds) ==
    HaAverage(lists, id, mem, timestamp_seconds,
              np_gradient(Column(cpu), timestamp_seconds))

\* lines 168-176 on the sums of a component; with no record cpu is still
\* None and cpu.index raises
HaSummed(lists, id, sums) ==
    IF ~sums.ok THEN sums
    ELSE IF sums.v.cpu.none THEN Err("AttributeError")
    ELSE HaRate(lists, id, sums.v.cpu.series, sums.v.mem.series,
                TimestampSeconds(sums.v.cpu.series))

\* lines 146-176: one component of parse_ha_data
HaComponent(lists, component) ==
    HaSummed(lists, component.id,
             HaRecords([mem |-> None, cpu |-> None], component.records))

RECURSIVE HaComponents(_, _)

\* the components after the first, unless the first raised
HaComponentsAfter(r, data) == IF ~r.ok THEN r ELSE HaComponents(r.v, data)

\* lines 145-176: for id in data
HaComponents(lists, data) ==
    IF data = <<>> THEN Ok(lists)
    ELSE HaComponentsAfter(HaComponent(lists, Head(data)), Tail(data))

\* lines 140-180
parse_ha_data(data) == FrameOf(HaComponents(EmptyLists, data))

\* no call has been made
NotCalled == [ok |-> FALSE, v |-> <<>>, err |-> "not called"]

\* the value of a function that falls off its end
ReturnsNone == [ok |-> TRUE, v |-> <<>>, err |-> "returned None"]

\* the choice made by looking at every component
Callee_every_component(data) ==
    IF data = <<>> THEN "none"
    ELSE IF \A i \in 1..Len(data) : Len(data[i].records) = 1
         THEN "parse_singleton_data"
         ELSE "parse_ha_data"

\* lines 106-112: the function the loop hands the document to; its body
\* returns on the first iteration, so only the first component is looked at
Callee(data) ==
    IF data = <<>> THEN "none"
    ELSE IF Len(Head(data).records) = 1
         THEN "parse_singleton_data"
         ELSE "parse_ha_data"

\* lines 105-112
parse_cadvisor_data(data) ==
    CASE Callee(data) = "parse_singleton_data" -> parse_singleton_data(data)
      [] Callee(data) = "parse_ha_data" -> parse_ha_data(data)
      [] OTHER -> ReturnsNone

ScriptInit ==
    /\ pc = "argcheck"
    /\ argv \in {ArgvOfLen(n) : n \in 1..MaxArgv}
    /\ fs \in [KnownPaths -> FileStates]
    /\ fs[Path("OUT", "indexed_requests.png")] # "malformed"
    /\ fs0 = fs
    /\ data_dir = "unbound"
    /\ output_figure_dir = "unbound"
    /\ stdout = <<>>
    /\ error = "none"
    /\ exit_status = -1
    /\ opened = <<>>
    /\ written = {}
    /\ globals = {}
    /\ phases = <<>>
    /\ arg = <<>>
    /\ calls = <<>>
    /\ ret = NotCalled

\* lines 16-22
ArgCheck ==
    /\ pc = "argcheck"
    /\ IF Len(argv) # 4
       THEN /\ stdout' = stdout \o <<"Invalid arguments, usage:",
                                     "{} [data-dir] [output-figure-dir]">>
            /\ Raise("SystemExit")
            /\ UNCHANGED <<data_dir, output_figure_dir>>
       ELSE /\ data_dir' = argv[2]
            /\ output_figure_dir' = argv[3]
            /\ pc' = "load_events"
            /\ UNCHANGED <<stdout, error, exit_status>>
    /\ UNCHANGED <<argv, fs, fs0, opened, written, globals, phases, callVars>>

\* open a path and json.load it: the outcome of lines 26-27 / 31-32
LoadJson(path, phase, next) ==
    /\ opened' = Append(opened, path)
    /\ CASE StateOf(path) = "missing" ->
                /\ Raise("FileNotFoundError")
                /\ UNCHANGED phases
         [] StateOf(path) = "malformed" ->
                /\ Raise("JSONDecodeError")
                /\ UNCHANGED phases
         [] OTHER ->
                /\ phases' = Append(phases, phase)
                /\ pc' = next
                /\ UNCHANGED <<error, exit_status>>

\* lines 24-27
LoadEvents ==
    /\ pc = "load_events"
    /\ LoadJson(events_file_path, "read_events", "load_cadvisor")
    /\ UNCHANGED <<argv, fs, fs0, data_dir, output_figure_dir, stdout, written, globals, callVars>>

\* lines 29-32
LoadCadvisor ==
    /\ pc = "load_cadvisor"
    /\ LoadJson(cadvisor_file_path, "read_cadvisor", "defs")
    /\ UNCHANGED <<argv, fs, fs0, data_dir, output_figure_dir, stdout, written, globals, callVars>>

\* lines 34-225: the def statements and unit constants only bind names
Defs ==
    /\ pc = "defs"
    /\ globals' = globals \cup DefinedNames
    /\ pc' = "toplevel"
    /\ UNCHANGED <<argv, fs, fs0, data_dir, output_figure_dir, stdout, error,
                   exit_status, opened, written, phases, callVars>>

\* lines 227-256: the first name of ToplevelNames that is not bound raises
\* NameError before any argument of the call is evaluated
TopLevel ==
    /\ pc = "toplevel"
    /\ IF \E i \in 1..Len(ToplevelNames) : ToplevelNames[i] \notin globals
       THEN /\ Raise("NameError")
            /\ UNCHANGED <<fs, written, phases>>
       ELSE /\ phases' = phases \o <<"reshape_events", "plot_events",
                                     "reshape_cadvisor", "plot_resources", "save">>
            /\ written' = written \cup {figure_path}
            /\ fs' = [p \in DOMAIN fs \cup {figure_path} |-> IF p = figure_path THEN "ok" ELSE fs[p]]
            /\ pc' = "exited"
            /\ exit_status' = 0
            /\ UNCHANGED error
    /\ UNCHANGED <<argv, fs0, data_dir, output_figure_dir, stdout, opened, globals, callVars>>

Next == ArgCheck \/ LoadEvents \/ LoadCadvisor \/ Defs \/ TopLevel

Init == ScriptInit

Spec == Init /\ [][Next]_vars

\* ------------------------------------------------------------------------
\* Properties of the script run (specification Spec)
\* ------------------------------------------------------------------------
\* the invocation of the usage line: script.py <data-dir> <output-figure-dir>
TwoArguments == Len(argv) = 3

\* the argument check let the run through
Accepted == pc # "argcheck" /\ error # "SystemExit"

ArgDataDir == argv[2]
ArgOutputDir == argv[3]

InputBad(name) == fs0[Path(ArgDataDir, name)] # "ok"
InputsWellFormed == ~InputBad("latent-watch.json") /\ ~InputBad("data.json")

PhaseOf(step) ==
    CASE step \in {"read_events", "read_cadvisor"} -> "read"
      [] step \in {"reshape_events", "reshape_cadvisor"} -> "reshape"
      [] step \in {"plot_events", "plot_resources"} -> "plot"
      [] OTHER -> "save"

\* the phases of a step sequence, a phase listed again each time it starts
RECURSIVE PhaseRuns(_)
PhaseRuns(steps) ==
    IF steps = <<>> THEN <<>>
    ELSE LET rest == PhaseRuns(Tail(steps))
         IN  IF rest # <<>> /\ Head(rest) = PhaseOf(Head(steps))
             THEN rest ELSE <<PhaseOf(Head(steps))>> \o rest

FourPhases == <<"read", "reshape", "plot", "save">>

\* C1: invoked with exactly two arguments, the argument check accepts the
\* run: no usage message, no exit with status 1, and the run goes on to
\* open the input files.
C1_TwoArgumentsAccepted ==
    (TwoArguments /\ pc # "argcheck") =>
        /\ stdout = <<>>
        /\ ~(error = "SystemExit" /\ exit_status = 1)
        /\ (pc = "load_events" \/ opened # <<>>)

\* C2: a run whose arguments are accepted and whose input files are well
\* formed ends with indexed_requests.png written into the output directory;
\* nothing between loading and saving stops it.
C2_AcceptedRunSavesFigure ==
    (pc = "exited" /\ Accepted /\ InputsWellFormed) =>
        /\ error = "none"
        /\ Path(ArgOutputDir, "indexed_requests.png") \in written

\* C3: the four phases happen in the order read, reshape, plot, save, none
\* starting before the previous one has finished, and a run that goes through
\* has performed each exactly once.
C3_PhasesInOrderOnce ==
    /\ \E n \in 0..4 : PhaseRuns(phases) = SubSeq(FourPhases, 1, n)
    /\ (pc = "exited" /\ Accepted /\ InputsWellFormed) => PhaseRuns(phases) = FourPhases

FirstBadInput ==
    IF InputBad("latent-watch.json") THEN "latent-watch.json" ELSE "data.json"

\* C4: when an input file is missing or malformed, the run invoked with
\* <data-dir> and <output-figure-dir> ends in failure at the load of that
\* file: nothing is reshaped or plotted, the figure is not written, and a
\* failure on latent-watch.json comes before data.json is opened.
C4_RunFailsAtTheLoad ==
    (TwoArguments /\ pc = "exited" /\ ~InputsWellFormed) =>
        /\ error \in {"FileNotFoundError", "JSONDecodeError"}
        /\ opened # <<>>
        /\ opened[Len(opened)] = Path(ArgDataDir, FirstBadInput)
        /\ \A i \in 1..Len(phases) : PhaseOf(phases[i]) = "read"
        /\ written = {}
        /\ (InputBad("latent-watch.json") =>
                \A i \in 1..Len(opened) : opened[i] # Path(ArgDataDir, "data.json"))

\* C5: the script opens no file but latent-watch.json and data.json of its
\* first argument, writes no file but indexed_requests.png of its second,
\* leaves every other file as it was, and a failed run leaves all files as
\* they were.
C5_TouchesOnlyItsFiles ==
    /\ \A i \in 1..Len(opened) :
          opened[i] \in {Path(ArgDataDir, "latent-watch.json"), Path(ArgDataDir, "data.json")}
    /\ written # {} => written = {Path(ArgOutputDir, "indexed_requests.png")}
    /\ \A p \in DOMAIN fs0 : p \notin written => (p \in DOMAIN fs /\ fs[p] = fs0[p])
    /\ (pc = "exited" /\ exit_status # 0) => (fs = fs0 /\ written = {})

\* both input files have been read and the run has ended
\* a run that passed the argument check stops at the load of the first input
\* that is missing or malformed
LoadFailureEndsAcceptedRun ==
    (pc = "exited" /\ Accepted /\ ~InputsWellFormed) =>
        /\ error \in {"FileNotFoundError", "JSONDecodeError"}
        /\ opened[Len(opened)] = Path(ArgDataDir, FirstBadInput)
        /\ \A i \in 1..Len(phases) : PhaseOf(phases[i]) = "read"
        /\ written = {}
        /\ (InputBad("latent-watch.json") => opened = <<Path(ArgDataDir, "latent-watch.json")>>)

C5_Witness ==
    /\ pc = "exited"
    /\ Len(opened) = 2
    /\ opened = <<Path(ArgDataDir, "latent-watch.json"), Path(ArgDataDir, "data.json")>>
    /\ exit_status # 0

\* ------------------------------------------------------------------------
\* The helpers called on their own, on bounded inputs
\* ------------------------------------------------------------------------
\* the script itself is not running
ScriptIdle ==
    /\ pc = "idle"
    /\ argv = <<>>
    /\ fs = <<>>
    /\ fs0 = <<>>
    /\ data_dir = "unbound"
    /\ output_figure_dir = "unbound"
    /\ stdout = <<>>
    /\ error = "none"
    /\ exit_status = -1
    /\ opened = <<>>
    /\ written = {}
    /\ globals = {}
    /\ phases = <<>>

\* sample traces
NoSamples == <<>>
OneSample == <<Sample(100, 5, 1000000000)>>
\* two buckets
ShortTrace == <<Sample(100, 6, 0), Sample(104, 8, 500000000)>>
\* ten buckets, the first shared by two samples, eight of them empty
TenBuckets == <<Sample(100, 10, 0), Sample(101, 20, 1000000000), Sample(129, 40, 2000000000)>>
\* eleven buckets
ElevenBuckets == <<Sample(50, 7, 0), Sample(81, 9, 500000000)>>
\* the latest sample listed first
LatestFirst == <<Sample(130, 3, 1000000000), Sample(100, 1, 0)>>
\* two samples at the same instant
SameInstant == <<Sample(10, 2, 0), Sample(10, 4, 1000000000), Sample(40, 6, 2000000000)>>

Traces == {NoSamples, OneSample, ShortTrace, TenBuckets, ElevenBuckets, LatestFirst, SameInstant}

\* the traces used in documents of several components
SharedTraces == {ShortTrace, TenBuckets, ElevenBuckets}

ComponentIds == <<"etcd", "kube-api", "scheduler", "controller">>

\* sequences of at most n elements of S
SeqUpTo(S, n) == UNION {[1..k -> S] : k \in 0..n}

\* record lists: any for a document of one component, copies of one trace
\* for the components of a longer document
AnyRecords == SeqUpTo(Traces, MaxRecords)
UniformRecords == {[i \in 1..k |-> t] : k \in 0..MaxRecords, t \in SharedTraces}

Document(recordLists) ==
    [i \in 1..Len(recordLists) |-> [id |-> ComponentIds[i], records |-> recordLists[i]]]

Documents ==
    {Document(rl) : rl \in SeqUpTo(AnyRecords, 1)}
    \cup {Document(rl) : rl \in SeqUpTo(UniformRecords, MaxComponents)}

ParseInit ==
    /\ ScriptIdle
    /\ arg \in Documents
    /\ calls = <<>>
    /\ ret = NotCalled

CallParseCadvisor ==
    /\ calls = <<>>
    /\ calls' = <<"parse_cadvisor_data", Callee(arg)>>
    /\ ret' = parse_cadvisor_data(arg)
    /\ UNCHANGED <<arg, scriptVars>>

CallParseSingleton ==
    /\ calls = <<>>
    /\ calls' = <<"parse_singleton_data">>
    /\ ret' = parse_singleton_data(arg)
    /\ UNCHANGED <<arg, scriptVars>>

CallParseHa ==
    /\ calls = <<>>
    /\ calls' = <<"parse_ha_data">>
    /\ ret' = parse_ha_data(arg)
    /\ UNCHANGED <<arg, scriptVars>>

ParseNext == CallParseCadvisor \/ CallParseSingleton \/ CallParseHa

SpecParse == ParseInit /\ [][ParseNext]_vars

RECURSIVE Pow(_, _)
Pow(b, e) == IF e = 0 THEN 1 ELSE b * Pow(b, e - 1)

Exponents == (-MaxExp)..MaxExp

ByteCounts ==
    {0} \cup {sg * k * Pow(10, j) + e :
                sg \in {-1, 1}, k \in 1..MaxLead, j \in 0..8, e \in {-1, 0, 1}}

FormatInit ==
    /\ ScriptIdle
    /\ arg \in Exponents \cup ByteCounts
    /\ calls = <<>>
    /\ ret = NotCalled

CallFormat ==
    /\ calls = <<>>
    /\ arg \in Exponents
    /\ calls' = <<"format">>
    /\ ret' = format(arg)
    /\ UNCHANGED <<arg, scriptVars>>

CallFormatBytes ==
    /\ calls = <<>>
    /\ calls' = <<"formatBytes">>
    /\ ret' = formatBytes(arg)
    /\ UNCHANGED <<arg, scriptVars>>

FormatNext == CallFormat \/ CallFormatBytes

SpecFormat == FormatInit /\ [][FormatNext]_vars

\* ------------------------------------------------------------------------
\* Properties of the parsers (specification SpecParse)
\* ------------------------------------------------------------------------
Called(f) == calls # <<>> /\ calls[1] = f

\* the call returned a table
IsTable(r) == r.ok /\ r.err = "none"

RecordCount(data, i) == Len(data[i].records)

\* C6 as stated: the singleton parser is chosen exactly when every component
\* has exactly one record, the HA parser whenever some component has more
\* than one, and a table is returned for every document.
C6_ChoiceByEveryComponent ==
    Called("parse_cadvisor_data") =>
        /\ calls[2] = "parse_singleton_data" <=> \A i \in 1..Len(arg) : RecordCount(arg, i) = 1
        /\ (\E i \in 1..Len(arg) : RecordCount(arg, i) > 1) => calls[2] = "parse_ha_data"
        /\ IsTable(ret)

\* C6 amended: parse_cadvisor_data looks at the first component of the
\* document only: it hands the document to parse_singleton_data exactly when
\* that component has exactly one record and to parse_ha_data otherwise,
\* whatever the other components hold; for a document without components
\* it calls neither and returns None; what it returns is what the chosen
\* parser returns.
C6_ChoiceByFirstComponent ==
    Called("parse_cadvisor_data") =>
        IF arg = <<>>
        THEN calls[2] = "none" /\ ~IsTable(ret) /\ ret.err = "returned None"
        ELSE /\ calls[2] = "parse_singleton_data" <=> RecordCount(arg, 1) = 1
             /\ calls[2] = "parse_ha_data" <=> RecordCount(arg, 1) # 1
             /\ calls[2] = "parse_singleton_data" => ret = parse_singleton_data(arg)
             /\ calls[2] = "parse_ha_data" => ret = parse_ha_data(arg)

\* the singleton parser is chosen for a document whose second component has
\* two records
C6_Witness ==
    /\ calls = <<"parse_cadvisor_data", "parse_singleton_data">>
    /\ Len(arg) = 2
    /\ RecordCount(arg, 2) = 2
    /\ IsTable(ret)

RECURSIVE Concat(_)
Concat(seqs) == IF seqs = <<>> THEN <<>> ELSE Head(seqs) \o Concat(Tail(seqs))

\* the component id of every sample of the document, in document order
SampleOwners(data) ==
    Concat([i \in 1..Len(data) |->
              Concat([j \in 1..Len(data[i].records) |->
                        [k \in 1..Len(data[i].records[j]) |-> data[i].id]])])

RECURSIVE SumOf(_)
SumOf(ns) == IF ns = <<>> THEN 0 ELSE Head(ns) + SumOf(Tail(ns))

\* the number of samples over all components and records
TotalSamples(data) ==
    SumOf([i \in 1..Len(data) |->
             SumOf([j \in 1..Len(data[i].records) |-> Len(data[i].records[j])])])

\* seconds since the epoch of sample k of a trace
TimeOf(trace, k) == trace[k].timestamp.text

\* number of 3-second buckets between the earliest and the latest sample
BucketsOf(trace) ==
    LET times == {TimeOf(trace, k) : k \in 1..Len(trace)}
    IN  (SetMax(times) - SetMin(times)) \div 3 + 1

\* C7: a table returned by either parser has four columns of one length; a
\* table of parse_singleton_data has one row per sample, each carrying the
\* id of the sample's component.
C7_RowsCarryAllFields ==
    ((Called("parse_singleton_data") \/ Called("parse_ha_data")) /\ IsTable(ret)) =>
        /\ Len(ret.v.component) = Len(ret.v.cpu)
        /\ Len(ret.v.cpu) = Len(ret.v.mem)
        /\ Len(ret.v.mem) = Len(ret.v.timestamp)
        /\ Called("parse_singleton_data") =>
              /\ Len(ret.v.component) = TotalSamples(arg)
              /\ ret.v.component = SampleOwners(arg)

\* parse_ha_data returned a table for a component whose replicas cover
\* different numbers of buckets
C7_Witness ==
    /\ Called("parse_ha_data")
    /\ IsTable(ret)
    /\ \E i \in 1..Len(arg) : \E j, k \in 1..RecordCount(arg, i) :
          BucketsOf(arg[i].records[j]) # BucketsOf(arg[i].records[k])

\* the elapsed seconds of every sample since the first sample of its record
ElapsedTimes(data) ==
    Concat([i \in 1..Len(data) |->
              Concat([j \in 1..Len(data[i].records) |->
                        [k \in 1..Len(data[i].records[j]) |->
                           Fl(TimeOf(data[i].records[j], k) - TimeOf(data[i].records[j], 1))]])])

InTimeOrder(trace) ==
    \A k \in 1..(Len(trace) - 1) : TimeOf(trace, k) <= TimeOf(trace, k + 1)

\* the rows of a table that belong to a component, in table order
RECURSIVE RowsOf(_, _, _)
RowsOf(table, id, from) ==
    IF from > Len(table.component) THEN <<>>
    ELSE (IF table.component[from] = id THEN <<from>> ELSE <<>>) \o RowsOf(table, id, from + 1)

TimestampsOf(table, id) ==
    LET rows == RowsOf(table, id, 1) IN [r \in 1..Len(rows) |-> table.timestamp[rows[r]]]

BucketStarts(n) == [r \in 1..n |-> Fl(3 * (r - 1))]

StrictlyIncreasing(ts) == \A r \in 1..(Len(ts) - 1) : FLess(ts[r], ts[r + 1])

\* the singleton half of C8: each row holds its sample's time minus the time
\* of the first sample of the same record, so the first row of a record
\* holds 0 and a record listed in time order has non-negative,
\* non-decreasing timestamps
SingletonTimestampsElapsed ==
    /\ ret.v.timestamp = ElapsedTimes(arg)
    /\ \A i \in 1..Len(arg) : \A j \in 1..RecordCount(arg, i) :
          InTimeOrder(arg[i].records[j]) =>
             \A k \in 1..Len(arg[i].records[j]) :
                /\ TimeOf(arg[i].records[j], k) - TimeOf(arg[i].records[j], 1) >= 0
                /\ k > 1 => TimeOf(arg[i].records[j], k) - TimeOf(arg[i].records[j], 1)
                             >= TimeOf(arg[i].records[j], k - 1) - TimeOf(arg[i].records[j], 1)

\* C8 as stated: singleton timestamps are elapsed times within the record,
\* and the timestamps of every component of an HA table are the bucket
\* starts 0, 3, 6, ... in strictly increasing order.
C8_TimestampsFromFirstSample ==
    /\ (Called("parse_singleton_data") /\ IsTable(ret)) => SingletonTimestampsElapsed
    /\ (Called("parse_ha_data") /\ IsTable(ret)) =>
          \A i \in 1..Len(arg) :
             LET ts == TimestampsOf(ret.v, arg[i].id)
             IN  ts = BucketStarts(Len(ts)) /\ StrictlyIncreasing(ts)

\* C8 amended: singleton timestamps are elapsed times within the record; the
\* timestamps of every component of an HA table are strictly increasing,
\* and they are the bucket starts 0, 3, 6, ... when every record of the
\* component lists its earliest sample first.
C8_TimestampsFromEarliestSample ==
    /\ (Called("parse_singleton_data") /\ IsTable(ret)) => SingletonTimestampsElapsed
    /\ (Called("parse_ha_data") /\ IsTable(ret)) =>
          \A i \in 1..Len(arg) :
             LET ts == TimestampsOf(ret.v, arg[i].id)
                 earliestFirst ==
                     \A j \in 1..RecordCount(arg, i) : \A k \in 1..Len(arg[i].records[j]) :
                         TimeOf(arg[i].records[j], 1) <= TimeOf(arg[i].records[j], k)
             IN  /\ StrictlyIncreasing(ts)
                 /\ earliestFirst => ts = BucketStarts(Len(ts))

\* an HA table for two replicas listed in time order
C8_Witness ==
    /\ Called("parse_ha_data")
    /\ IsTable(ret)
    /\ \E i \in 1..Len(arg) :
          /\ RecordCount(arg, i) = 2
          /\ \A j \in 1..2 : InTimeOrder(arg[i].records[j])
          /\ Len(TimestampsOf(ret.v, arg[i].id)) >= 10

\* the resampled series of one measurement of a replica
Resampled(trace, value(_)) ==
    interpolate_time(resample_mean(
        [k \in 1..Len(trace) |->
            Entry(TimeOf(trace, k) - TimeOf(trace, 1), value(trace[k]))]))

WorkingSet(item) == Fl(item.memory.working_set)

\* per bucket of any of the series, the sum over all of them, missing when
\* one of them has no such bucket
SumAligned(each, index) ==
    [r \in 1..Len(index) |->
        IF \A j \in 1..Len(each) : index[r] \in LabelsOf(each[j])
        THEN FSum([j \in 1..Len(each) |-> ValueAt(each[j], index[r])])
        ELSE NaN]

UnionIndex(each) == SortedSeq(UNION {LabelsOf(each[j]) : j \in 1..Len(each)})

SumOfSeries(each) == SumAligned(each, UnionIndex(each))

SumOverReplicas(records, value(_)) ==
    SumOfSeries([j \in 1..Len(records) |-> Resampled(records[j], value)])

Reversed(seq) == [i \in 1..Len(seq) |-> seq[Len(seq) + 1 - i]]

ColumnOf(table, id, column) ==
    LET rows == RowsOf(table, id, 1) IN [r \in 1..Len(rows) |-> column[rows[r]]]

\* the rate of a cumulative series averaged over a window of ten buckets
Tenth(conv) == [r \in 1..Len(conv) |-> FDiv(conv[r], Fl(10))]
AveragedRate(cumulative, ts) ==
    Tenth(np_convolve_same(np_gradient(cumulative, ts).v, np_ones(10)).v)

RecordsReversed(data) ==
    [i \in 1..Len(data) |-> [id |-> data[i].id, records |-> Reversed(data[i].records)]]

SameColumns(r, table) == IsTable(r) /\ r.v.mem = table.mem /\ r.v.cpu = table.cpu

\* C9: in an HA table the mem of a component in a bucket is the sum of its
\* replicas' resampled working sets in that bucket, missing when the bucket
\* lies outside a replica's range; the CPU column is the averaged rate of
\* the cumulative CPU summed the same way; neither depends on the order of
\* the replicas.
C9_SumOverReplicas ==
    (Called("parse_ha_data") /\ IsTable(ret)) =>
        /\ \A i \in 1..Len(arg) :
              /\ ColumnOf(ret.v, arg[i].id, ret.v.mem)
                    = SumOverReplicas(arg[i].records, WorkingSet)
              /\ ColumnOf(ret.v, arg[i].id, ret.v.cpu)
                    = AveragedRate(SumOverReplicas(arg[i].records, CpuSeconds),
                                   TimestampsOf(ret.v, arg[i].id))
        /\ RecordsReversed(arg) # arg => SameColumns(parse_ha_data(RecordsReversed(arg)), ret.v)

\* an HA table with a bucket covered by every replica and one that is not
C9_Witness ==
    /\ Called("parse_ha_data")
    /\ IsTable(ret)
    /\ \E i \in 1..Len(arg) :
          /\ RecordCount(arg, i) = 2
          /\ arg[i].records[1] # arg[i].records[2]
          /\ \E r \in 1..Len(ret.v.mem) : IsNaN(ret.v.mem[r])
          /\ \E r \in 1..Len(ret.v.mem) : IsFinite(ret.v.mem[r]) /\ ret.v.component[r] = arg[i].id

====
